---- MODULE Spec2Model ----
(***************************************************************************)
(* torchio: Image, Subject and ImagesDataset (torchio/data/images.py) and  *)
(* the RandomAffine transform                                              *)
(* (torchio/transforms/augmentation/spatial/random_affine.py).             *)
(*                                                                         *)
(* Python values are records tagged by their class in the field cls, so    *)
(* that isinstance() is a test of cls.  A dict is an insertion-ordered     *)
(* sequence of [key, value] pairs.  A raised exception is the status of a  *)
(* call's outcome; "ok" is a normal return.                                *)
(***************************************************************************)
EXTENDS Integers, Sequences, FiniteSets, TLC

VARIABLES
    dataset,    \* the ImagesDataset object, None before it is constructed
    nloads,     \* number of Image.load calls made so far
    last,       \* the most recent call: op, args, status, value, trace
    transform,  \* the RandomAffine object, None before it is constructed
    sample,     \* the sample dict apply_transform works on
    pc,         \* position inside RandomAffine.apply_transform
    params,     \* locals scaling_params, rotation_params of apply_transform
    it,         \* position of the loop over sample.values()
    log         \* calls made by the current apply_transform

vars == <<dataset, nloads, last, transform, sample, pc, params, it, log>>
affineVars == <<transform, sample, pc, params, it, log>>

----------------------------------------------------------------------------
(* Bounds of the model.                                                    *)

MaxImages == 2      \* positional arguments given to Subject(...)
MaxSubjects == 2    \* length of the subjects list given to ImagesDataset
MaxLoads == 3       \* __getitem__ is not called once this many loads happened
MaxEntries == 2     \* images in a sample handed to apply_transform

----------------------------------------------------------------------------
(* Python basics.                                                          *)

None == [cls |-> "NoneType"]

Ok(v, tr) == [status |-> "ok", value |-> v, trace |-> tr]
Raise(e, tr) == [status |-> e, value |-> None, trace |-> tr]

List(s) == [cls |-> "list", items |-> s]
PyInt(n) == [cls |-> "int", n |-> n]

\* isinstance(v, collections.abc.Sequence)
IsSequence(v) == v.cls \in {"list", "tuple", "Subject"}

\* sequences over S of length lo..hi
SeqsOf(S, lo, hi) == UNION {[1..n -> S] : n \in lo..hi}

\* d[k] = v on an insertion-ordered dict
RECURSIVE DictPut(_, _, _)
DictPut(d, k, v) ==
    IF d = <<>> THEN <<[key |-> k, value |-> v]>>
    ELSE IF Head(d).key = k THEN <<[key |-> k, value |-> v]>> \o Tail(d)
    ELSE <<Head(d)>> \o DictPut(Tail(d), k, v)

\* seq[index] with Python's negative indices
GetIndex(s, index) ==
    IF 0 <= index /\ index < Len(s) THEN Ok(s[index + 1], <<>>)
    ELSE IF index < 0 /\ -index <= Len(s) THEN Ok(s[Len(s) + index + 1], <<>>)
    ELSE Raise("IndexError", <<>>)

----------------------------------------------------------------------------
(* torchio constants and paths.                                            *)

INTENSITY == "intensity"
LABEL == "label"

\* A path is its directory parts, the stem of its file name and the suffix.
StrPath(parts, stem, suffix) ==
    [cls |-> "str", parts |-> parts, stem |-> stem, suffix |-> suffix]

HomeDir == <<"/", "home", "user">>

\* Path(path).expanduser()
expanduser(path) ==
    [cls |-> "Path",
     parts |-> IF path.parts # <<>> /\ Head(path.parts) = "~"
               THEN HomeDir \o Tail(path.parts) ELSE path.parts,
     stem |-> path.stem, suffix |-> path.suffix]

\* The files and directories on disk.
FileSystem ==
    {[cls |-> "Path", parts |-> HomeDir \o <<"MRI">>, stem |-> "t1", suffix |-> "nrrd"],
     [cls |-> "Path", parts |-> HomeDir \o <<"MRI">>, stem |-> "t1_seg", suffix |-> "nii.gz"],
     [cls |-> "Path", parts |-> <<"/", "tmp">>, stem |-> "colin27_t1", suffix |-> "nii.gz"],
     [cls |-> "Path", parts |-> <<"/", "tmp">>, stem |-> "dicom", suffix |-> ""]}

exists(path) == path \in FileSystem

\* str(path)
str(path) == [cls |-> "str", parts |-> path.parts, stem |-> path.stem, suffix |-> path.suffix]

\* utils.get_stem: the file name up to its first dot
get_stem(path) == path.stem

----------------------------------------------------------------------------
(* class Image                                                             *)

parse_path(name, path) ==
    IF path.cls \notin {"str", "Path"} THEN Raise("TypeError", <<>>)
    ELSE IF ~exists(expanduser(path)) THEN Raise("FileNotFoundError", <<>>)
    ELSE Ok(expanduser(path), <<>>)

\* a constructor that reads the file at once
ImageInit_eager(name, path, type_) ==
    LET p == parse_path(name, path) IN
    IF p.status # "ok" THEN p
    ELSE LET image == [cls |-> "Image", name |-> name, path |-> p.value, type |-> type_] IN
         Ok(image, <<[ev |-> "load", path |-> image.path, check_nans |-> TRUE]>>)

ImageInit(name, path, type_) ==
    LET p == parse_path(name, path) IN
    IF p.status # "ok" THEN p
    ELSE Ok([cls |-> "Image", name |-> name, path |-> p.value, type |-> type_], p.trace)

\* The volume stored in a file: its 3D shape
FileShape(path) ==
    IF path.stem = "colin27_t1" THEN <<181, 217, 181>> ELSE <<256, 256, 176>>

\* io.read_image: the 3D tensor and the affine of the file.  A tensor is the
\* file it was read from, its shape, and the resamplings applied to it.
read_image(path) ==
    [tensor |-> [file |-> path, shape |-> FileShape(path), resampled |-> <<>>],
     affine |-> [file |-> path]]

\* tensor.unsqueeze(0)
unsqueeze0(tensor) == [tensor EXCEPT !.shape = <<1>> \o @]

LoadEvent(image, check_nans) ==
    [ev |-> "load", path |-> image.path, check_nans |-> check_nans]

load(image, check_nans) ==
    LET read == read_image(image.path) IN
    Ok([tensor |-> unsqueeze0(read.tensor), affine |-> read.affine],
       <<LoadEvent(image, check_nans)>>)

----------------------------------------------------------------------------
(* class Subject(list)                                                     *)

\* the loop without the check of the names
RECURSIVE parse_images_loop_types_only(_, _, _)
parse_images_loop_types_only(images, i, names) ==
    IF i > Len(images) THEN "ok"
    ELSE IF images[i].cls # "Image" THEN "TypeError"
    ELSE parse_images_loop_types_only(images, i + 1, names)

RECURSIVE parse_images_loop(_, _, _)
parse_images_loop(images, i, names) ==
    IF i > Len(images) THEN "ok"
    ELSE IF images[i].cls # "Image" THEN "TypeError"
    ELSE IF images[i].name \in names THEN "KeyError"
    ELSE parse_images_loop(images, i + 1, names \cup {images[i].name})

\* images is the tuple of positional arguments
parse_images(images) ==
    IF ~IsSequence(images) THEN "TypeError"
    ELSE IF images.items = <<>> THEN "ValueError"
    ELSE parse_images_loop(images.items, 1, {})

SubjectInit(images, name) ==
    LET e == parse_images([cls |-> "tuple", items |-> images]) IN
    IF e # "ok" THEN Raise(e, <<>>)
    ELSE Ok([cls |-> "Subject", items |-> images, name |-> name], <<>>)

----------------------------------------------------------------------------
(* class ImagesDataset(Dataset)                                            *)

\* Subject(*subject_list): the star needs an iterable
RECURSIVE parse_subjects_loop(_, _)
parse_subjects_loop(subjects, i) ==
    IF i > Len(subjects) THEN "ok"
    ELSE IF ~IsSequence(subjects[i]) THEN "TypeError"
    ELSE LET r == SubjectInit(subjects[i].items, "") IN
         IF r.status # "ok" THEN r.status
         ELSE parse_subjects_loop(subjects, i + 1)

\* the validation without the check for an empty list
parse_subjects_list_no_empty(subjects_list) ==
    IF ~IsSequence(subjects_list) THEN "TypeError"
    ELSE parse_subjects_loop(subjects_list.items, 1)

parse_subjects_list(subjects_list) ==
    IF ~IsSequence(subjects_list) THEN "TypeError"
    ELSE IF subjects_list.items = <<>> THEN "ValueError"
    ELSE parse_subjects_loop(subjects_list.items, 1)

DatasetInit(subjects, transform_, check_nans) ==
    LET e == parse_subjects_list(subjects) IN
    IF e # "ok" THEN Raise(e, <<>>)
    ELSE Ok([cls |-> "ImagesDataset", subjects |-> subjects,
             transform |-> transform_, check_nans |-> check_nans], <<>>)

len(ds) == Len(ds.subjects.items)

\* A transform is any callable; calling it yields a value that records the
\* callable and the argument it was given.
Callable(id) == [cls |-> "Transform", id |-> id]
TransformEvent(t, arg) == [ev |-> "transform", by |-> t.id, arg |-> arg]
CallTransform(t, arg) ==
    Ok([cls |-> "dict", transformed_by |-> t.id, input |-> arg],
       <<TransformEvent(t, arg)>>)

Dict(items) == [cls |-> "dict", items |-> items]

image_dict(image, loaded) ==
    [cls |-> "dict",
     data |-> loaded.tensor,
     affine |-> loaded.affine,
     type |-> image.type,
     path |-> str(image.path),
     stem |-> get_stem(image.path)]

\* the for loop of __getitem__: [sample, trace] after visiting images[i..]
RECURSIVE getitem_loop(_, _, _, _, _)
getitem_loop(images, i, check_nans, smp, tr) ==
    IF i > Len(images) THEN [sample |-> smp, trace |-> tr]
    ELSE LET l == load(images[i], check_nans) IN
         getitem_loop(images, i + 1, check_nans,
                      DictPut(smp, images[i].name, image_dict(images[i], l.value)),
                      tr \o l.trace)

\* the sample returned as built although a transform is set
apply_dataset_transform_skipped(ds, built) == Ok(Dict(built.sample), built.trace)

apply_dataset_transform(ds, built) ==
    IF ds.transform # None
    THEN LET r == CallTransform(ds.transform, Dict(built.sample)) IN
         Ok(r.value, built.trace \o r.trace)
    ELSE Ok(Dict(built.sample), built.trace)

getitem(ds, index) ==
    LET s == GetIndex(ds.subjects.items, index) IN
    IF s.status # "ok" THEN s
    ELSE apply_dataset_transform(
             ds, getitem_loop(s.value.items, 1, ds.check_nans, <<>>, <<>>))

\* a setter that also resets check_nans to its default
set_transform_resetting(ds, transform_) ==
    [ds EXCEPT !.transform = transform_, !.check_nans = TRUE]

set_transform(ds, transform_) == [ds EXCEPT !.transform = transform_]

----------------------------------------------------------------------------
(* Inputs of the calls.                                                    *)

ImageArgs ==
    {[name |-> "t1", path |-> StrPath(<<"~", "MRI">>, "t1", "nrrd"), type_ |-> INTENSITY],
     [name |-> "label", path |-> StrPath(<<"~", "MRI">>, "t1_seg", "nii.gz"), type_ |-> LABEL],
     [name |-> "t1", path |-> StrPath(<<"/", "tmp">>, "colin27_t1", "nii.gz"), type_ |-> INTENSITY],
     [name |-> "t2", path |-> StrPath(<<"/", "tmp">>, "colin27_t2", "nii"), type_ |-> INTENSITY],
     [name |-> "t1", path |-> PyInt(5), type_ |-> INTENSITY]}

\* the Image objects that can be constructed
Images ==
    {r.value : r \in {x \in {ImageInit(a.name, a.path, a.type_) : a \in ImageArgs} :
                      x.status = "ok"}}

\* Subject([image, image]) of the ImagesDataset docstring passes one list
DocstringList ==
    List(<<ImageInit("t1", StrPath(<<"~", "MRI">>, "t1", "nrrd"), INTENSITY).value,
           ImageInit("label", StrPath(<<"~", "MRI">>, "t1_seg", "nii.gz"), LABEL).value>>)

SubjectArgs == SeqsOf(Images \cup {DocstringList}, 0, MaxImages)

ImageNamed(n, stem) == CHOOSE im \in Images : im.name = n /\ im.path.stem = stem

\* elements of a subjects list: Subject objects, and lists and values that are
\* no valid subject
SubjectInputs ==
    LET t1 == ImageNamed("t1", "t1")
        seg == ImageNamed("label", "t1_seg")
        colin == ImageNamed("t1", "colin27_t1")
    IN {SubjectInit(<<t1, seg>>, "").value,
        SubjectInit(<<colin>>, "").value,
        List(<<>>),
        List(<<t1, colin>>),
        List(<<t1, PyInt(5)>>),
        PyInt(5)}

DatasetArgs ==
    {List(s) : s \in SeqsOf(SubjectInputs, 0, MaxSubjects)}
    \cup {[cls |-> "tuple", items |-> <<SubjectInit(<<ImageNamed("label", "t1_seg")>>, "").value>>],
          [cls |-> "generator"]}

Transforms == {None, Callable("T1"), Callable("T2")}

----------------------------------------------------------------------------
(* The calls on the data side.                                             *)

NumLoads(tr) == Cardinality({i \in 1..Len(tr) : tr[i].ev = "load"})

Call(op, args, r) ==
    [op |-> op, args |-> args, status |-> r.status, value |-> r.value, trace |-> r.trace]

NoCall == Call("none", None, Ok(None, <<>>))

NewImage ==
    \E a \in ImageArgs :
        LET r == ImageInit(a.name, a.path, a.type_) IN
        /\ last' = Call("Image", a, r)
        /\ nloads' = nloads + NumLoads(r.trace)
        /\ UNCHANGED <<dataset, affineVars>>

NewSubject ==
    \E images \in SubjectArgs :
        LET r == SubjectInit(images, "") IN
        /\ last' = Call("Subject", [images |-> images], r)
        /\ nloads' = nloads + NumLoads(r.trace)
        /\ UNCHANGED <<dataset, affineVars>>

NewDataset ==
    /\ dataset = None
    /\ \E subjects \in DatasetArgs, t \in {None, Callable("T1")}, check_nans \in BOOLEAN :
        LET r == DatasetInit(subjects, t, check_nans) IN
        /\ last' = Call("ImagesDataset",
                        [subjects |-> subjects, transform |-> t, check_nans |-> check_nans], r)
        /\ dataset' = IF r.status = "ok" THEN r.value ELSE dataset
        /\ nloads' = nloads + NumLoads(r.trace)
        /\ UNCHANGED affineVars

GetItem ==
    /\ dataset # None
    /\ nloads < MaxLoads
    /\ \E index \in (-len(dataset) - 1)..len(dataset) :
        LET r == getitem(dataset, index) IN
        /\ last' = Call("__getitem__", [index |-> index], r)
        /\ nloads' = nloads + NumLoads(r.trace)
        /\ UNCHANGED <<dataset, affineVars>>

SetTransform ==
    /\ dataset # None
    /\ \E t \in Transforms :
        /\ dataset' = set_transform(dataset, t)
        /\ last' = Call("set_transform", [transform |-> t], Ok(None, <<>>))
        /\ UNCHANGED <<nloads, affineVars>>

----------------------------------------------------------------------------
(* class RandomAffine(RandomTransform)                                     *)

NEAREST == [cls |-> "Interpolation", value |-> "sitkNearestNeighbor"]
LINEAR == [cls |-> "Interpolation", value |-> "sitkLinear"]
BSPLINE == [cls |-> "Interpolation", value |-> "sitkBSpline"]

Tuple(s) == [cls |-> "tuple", items |-> s]

\* RandomTransform.parse_degrees: a number d stands for the range (-d, d)
parse_degrees(degrees) ==
    IF degrees.cls = "int"
    THEN IF degrees.n < 0 THEN Raise("ValueError", <<>>)
         ELSE Ok(Tuple(<<-degrees.n, degrees.n>>), <<>>)
    ELSE IF Len(degrees.items) # 2 THEN Raise("ValueError", <<>>)
    ELSE Ok(degrees, <<>>)

\* Transform.parse_interpolation: only members of Interpolation pass
parse_interpolation(interpolation) ==
    IF interpolation.cls # "Interpolation" THEN Raise("TypeError", <<>>)
    ELSE Ok(interpolation, <<>>)

RandomAffineInit(scales, degrees, isotropic, image_interpolation) ==
    LET d == parse_degrees(degrees)
        i == parse_interpolation(image_interpolation)
    IN IF d.status # "ok" THEN d
       ELSE IF i.status # "ok" THEN i
       ELSE Ok([cls |-> "RandomAffine", scales |-> scales, degrees |-> d.value,
                isotropic |-> isotropic, interpolation |-> i.value], <<>>)

\* torch.FloatTensor(3).uniform_(*range): three draws from the range
uniform3(range) == [1..3 -> range.items[1]..range.items[2]]

\* tensor.fill_(v)
fill(tensor, v) == [k \in DOMAIN tensor |-> v]

\* get_params that ignores isotropic
get_params_anisotropic(scales, degrees, isotropic) ==
    {[drawn |-> s, scaling |-> List(s), rotation |-> List(r)] :
        s \in uniform3(scales), r \in uniform3(degrees)}

\* The values get_params can return, each with the scaling tensor as drawn.
get_params(scales, degrees, isotropic) ==
    {[drawn |-> s,
      scaling |-> List(IF isotropic THEN fill(s, s[1]) ELSE s),
      rotation |-> List(r)] : s \in uniform3(scales), r \in uniform3(degrees)}

\* utils.is_image_dict: a dict with the keys of an image
is_image_dict(v) ==
    v.cls = "dict" /\ {"type", "data", "affine"} \subseteq DOMAIN v

ImageEntries(smp) == {i \in 1..Len(smp) : is_image_dict(smp[i].value)}

\* utils.check_consistent_shape: the images of a sample have one shape
check_consistent_shape(smp) ==
    IF Cardinality({smp[i].value.data.shape : i \in ImageEntries(smp)}) > 1
    THEN "ValueError" ELSE "ok"

\* the parameters stored under each other's key
store_params_swapped(smp, p) ==
    DictPut(DictPut(smp, "random_scaling", p.rotation), "random_rotation", p.scaling)

\* lines 30-31: the parameters are stored in the sample
store_params(smp, p) ==
    DictPut(DictPut(smp, "random_scaling", p.scaling), "random_rotation", p.rotation)

\* the configured interpolation for every image
choose_configured(self, image) == self.interpolation

\* lines 35-38
choose_interpolation(self, image) ==
    IF image.type = LABEL THEN NEAREST ELSE self.interpolation

get_scaling_transform(scaling_params) ==
    [cls |-> "ScaleTransform", inverse_of |-> scaling_params.items]

get_rotation_transform(degrees) ==
    [cls |-> "Euler3DTransform", radians_of |-> degrees.items]

\* sitk.Resample(image, transform, interpolation.value), written into array[0]
apply_affine_transform(array, affine, scaling_params, rotation_params, interpolation) ==
    IF Len(array.shape) # 4 \/ array.shape[1] # 1 THEN Raise("AssertionError", <<>>)
    ELSE Ok([array EXCEPT !.resampled =
                @ \o <<[transforms |-> <<get_scaling_transform(scaling_params),
                                         get_rotation_transform(rotation_params)>>,
                        interpolator |-> interpolation.value]>>], <<>>)

ResampleEvent(key, p, interpolation) ==
    [ev |-> "resample", key |-> key, scaling |-> p.scaling, rotation |-> p.rotation,
     interpolation |-> interpolation]

----------------------------------------------------------------------------
(* Inputs of the transform.                                                *)

RandomAffineArgs ==
    [scales : {Tuple(<<9, 10>>)},
     degrees : {PyInt(1), Tuple(<<0, 1>>), PyInt(-1)},
     isotropic : BOOLEAN,
     image_interpolation : {NEAREST, LINEAR, BSPLINE, [cls |-> "str", value |-> "linear"]}]

\* an image whose name is a key apply_transform writes
ScalingNamedImage ==
    ImageInit("random_scaling", StrPath(<<"/", "tmp">>, "dicom", ""), INTENSITY).value

\* a sample whose tensor has two channels
TwoChannelSample ==
    LET l == load(ImageNamed("t1", "t1"), TRUE).value IN
    <<[key |-> "t1",
       value |-> image_dict(ImageNamed("t1", "t1"),
                            [l EXCEPT !.tensor.shape = <<2>> \o Tail(@)])]>>

\* the samples a dataset without transform returns, and the one above
AffineSamples ==
    {getitem_loop(s, 1, TRUE, <<>>, <<>>).sample :
        s \in SeqsOf(Images \cup {ScalingNamedImage}, 1, MaxEntries)}
    \cup {TwoChannelSample}

----------------------------------------------------------------------------
(* The calls on the transform side.                                        *)

NewRandomAffine ==
    /\ transform = None
    /\ \E a \in RandomAffineArgs :
        LET r == RandomAffineInit(a.scales, a.degrees, a.isotropic, a.image_interpolation) IN
        /\ last' = Call("RandomAffine", a, r)
        /\ transform' = IF r.status = "ok" THEN r.value ELSE transform
        /\ UNCHANGED <<dataset, nloads, sample, pc, params, it, log>>

\* apply_transform is entered and check_consistent_shape runs (line 27)
ApplyTransform ==
    /\ transform # None
    /\ pc \in {"idle", "done", "raised"}
    /\ \E smp \in AffineSamples :
        LET e == check_consistent_shape(smp) IN
        /\ sample' = smp
        /\ params' = None
        /\ it' = 0
        /\ log' = <<[ev |-> "check_consistent_shape"]>>
        /\ pc' = IF e = "ok" THEN "params" ELSE "raised"
        /\ last' = IF e = "ok" THEN Call("apply_transform", None, Ok(None, <<>>))
                   ELSE Call("apply_transform", None, Raise(e, <<>>))
        /\ UNCHANGED <<dataset, nloads, transform>>

\* lines 28-31
GetParams ==
    /\ pc = "params"
    /\ \E p \in get_params(transform.scales, transform.degrees, transform.isotropic) :
        /\ params' = p
        /\ sample' = store_params(sample, p)
        /\ log' = Append(log, [ev |-> "get_params", drawn |-> p.drawn,
                               scaling |-> p.scaling, rotation |-> p.rotation])
        /\ it' = 1
        /\ pc' = "loop"
        /\ UNCHANGED <<dataset, nloads, last, transform>>

\* one iteration of the loop over sample.values() (lines 32-45)
LoopStep ==
    /\ pc = "loop"
    /\ it <= Len(sample)
    /\ LET image == sample[it].value IN
       IF ~is_image_dict(image)
       THEN /\ it' = it + 1
            /\ UNCHANGED <<sample, pc, log, last>>
       ELSE LET interpolation == choose_interpolation(transform, image)
                r == apply_affine_transform(image.data, image.affine,
                                            params.scaling, params.rotation, interpolation)
            IN IF r.status # "ok"
               THEN /\ pc' = "raised"
                    /\ last' = Call("apply_transform", None, r)
                    /\ UNCHANGED <<sample, it, log>>
               ELSE /\ sample' = [sample EXCEPT ![it].value.data = r.value]
                    /\ log' = Append(log, ResampleEvent(sample[it].key, params, interpolation))
                    /\ it' = it + 1
                    /\ UNCHANGED <<pc, last>>
    /\ UNCHANGED <<dataset, nloads, transform, params>>

\* return sample (line 46)
Return ==
    /\ pc = "loop"
    /\ it > Len(sample)
    /\ pc' = "done"
    /\ last' = Call("apply_transform", None, Ok(Dict(sample), <<>>))
    /\ UNCHANGED <<dataset, nloads, transform, sample, params, it, log>>

Init ==
    /\ dataset = None
    /\ nloads = 0
    /\ last = NoCall
    /\ transform = None
    /\ sample = <<>>
    /\ pc = "idle"
    /\ params = None
    /\ it = 0
    /\ log = <<>>

Next == NewImage \/ NewSubject \/ NewDataset \/ GetItem \/ SetTransform

Spec == Init /\ [][Next]_vars

NextAffine == NewRandomAffine \/ ApplyTransform \/ GetParams \/ LoopStep \/ Return

SpecAffine == Init /\ [][NextAffine]_vars

----------------------------------------------------------------------------
(* Properties of Subject and ImagesDataset, checked under Spec.            *)

IsImage(v) == v.cls = "Image"

PairwiseDistinctNames(images) ==
    \A i, j \in 1..Len(images) : i # j => images[i].name # images[j].name

\* images[j] repeats the name of an earlier image, and everything up to it
\* is an Image
RepeatsName(images, j) ==
    /\ \A i \in 1..j : IsImage(images[i])
    /\ \E i \in 1..(j - 1) : images[i].name = images[j].name

\* C1: Subject(*images) raises KeyError and creates no Subject when two of
\* the given images have the same name; when it succeeds the Subject holds
\* exactly the given images, in the given order, with pairwise distinct names.
C1_UniqueNames ==
    last.op = "Subject" =>
        LET images == last.args.images IN
        /\ (\E j \in 1..Len(images) : RepeatsName(images, j))
               => last.status = "KeyError" /\ last.value = None
        /\ last.status = "ok"
               => /\ last.value.cls = "Subject"
                  /\ last.value.items = images
                  /\ \A i \in 1..Len(images) : IsImage(images[i])
                  /\ PairwiseDistinctNames(images)

\* two different images named t1 were given and KeyError was raised
C1_Witness ==
    /\ last.op = "Subject"
    /\ Len(last.args.images) = 2
    /\ IsImage(last.args.images[1]) /\ IsImage(last.args.images[2])
    /\ last.args.images[1] # last.args.images[2]
    /\ last.args.images[1].name = last.args.images[2].name
    /\ last.status = "KeyError"

\* C4: Subject([image, image]), a single list of Images as the only
\* positional argument as in the ImagesDataset docstring, constructs a Subject.
C4_DocstringExample ==
    (last.op = "Subject" /\ last.args.images = <<DocstringList>>)
        => last.status = "ok" /\ last.value.cls = "Subject"

\* the error a subjects-list element raises when it is validated, "ok" if none
FirstOffender(items) ==
    CHOOSE j \in 1..Len(items) :
        /\ ~IsImage(items[j]) \/ \E i \in 1..(j - 1) : items[i].name = items[j].name
        /\ \A k \in 1..(j - 1) :
               IsImage(items[k]) /\ \A i \in 1..(k - 1) : items[i].name # items[k].name

ExpectedSubjectError(s) ==
    IF ~IsSequence(s) THEN "TypeError"
    ELSE IF Len(s.items) = 0 THEN "ValueError"
    ELSE IF (\A i \in 1..Len(s.items) : IsImage(s.items[i])) /\ PairwiseDistinctNames(s.items)
    THEN "ok"
    ELSE IF IsImage(s.items[FirstOffender(s.items)]) THEN "KeyError" ELSE "TypeError"

\* C5: ImagesDataset(subjects) raises TypeError for a non-sequence, ValueError
\* for an empty one, and otherwise the error of the first invalid subject;
\* when it raises no dataset is created, and when it succeeds every subject
\* has at least one image and distinct names, and len(dataset) is the number
\* of subjects given.
C5_DatasetValidation ==
    last.op = "ImagesDataset" =>
        LET given == last.args.subjects IN
        /\ ~IsSequence(given) => last.status = "TypeError"
        /\ (IsSequence(given) /\ Len(given.items) = 0) => last.status = "ValueError"
        /\ (IsSequence(given) /\ Len(given.items) > 0) =>
               LET invalid == {i \in 1..Len(given.items) :
                                   ExpectedSubjectError(given.items[i]) # "ok"}
               IN IF invalid = {} THEN last.status = "ok"
                  ELSE last.status =
                           ExpectedSubjectError(
                               given.items[CHOOSE i \in invalid : \A k \in invalid : i <= k])
        /\ last.status # "ok" => last.value = None /\ dataset = None
        /\ last.status = "ok" =>
               /\ dataset = last.value
               /\ dataset.subjects = given
               /\ len(dataset) = Len(given.items)
               /\ \A i \in 1..len(dataset) :
                      LET subject == dataset.subjects.items[i].items IN
                      /\ Len(subject) >= 1
                      /\ \A k \in 1..Len(subject) : IsImage(subject[k])
                      /\ PairwiseDistinctNames(subject)

\* a valid subject followed by one with a repeated name: KeyError
C5_Witness ==
    /\ last.op = "ImagesDataset"
    /\ IsSequence(last.args.subjects)
    /\ Len(last.args.subjects.items) = 2
    /\ ExpectedSubjectError(last.args.subjects.items[1]) = "ok"
    /\ ExpectedSubjectError(last.args.subjects.items[2]) = "KeyError"
    /\ last.status = "KeyError"
    /\ dataset = None

\* subjects[index] for a valid index
SubjectAt(ds, index) ==
    ds.subjects.items[IF index >= 0 THEN index + 1 ELSE len(ds) + index + 1].items

ValidIndex(ds, index) == -len(ds) <= index /\ index < len(ds)

\* the entry of the sample an image stands for
IsEntryOf(entry, image) ==
    /\ entry.key = image.name
    /\ entry.value.data.file = image.path
    /\ entry.value.data.shape = <<1>> \o FileShape(image.path)
    /\ entry.value.data.resampled = <<>>
    /\ entry.value.affine.file = image.path
    /\ entry.value.type = image.type
    /\ entry.value.path.parts = image.path.parts
    /\ entry.value.path.stem = image.path.stem
    /\ entry.value.path.suffix = image.path.suffix
    /\ entry.value.stem = image.path.stem

IsSampleOf(items, subject) ==
    /\ Len(items) = Len(subject)
    /\ \A k \in 1..Len(subject) : IsEntryOf(items[k], subject[k])

TransformEvents(tr) == {i \in 1..Len(tr) : tr[i].ev = "transform"}
LoadEvents(tr) == {i \in 1..Len(tr) : tr[i].ev = "load"}

\* C2: for a valid index, __getitem__ builds a sample with one entry per image
\* of subjects[index], keyed by the image's name and carrying its data, affine,
\* type, path and stem; without a transform that sample is returned, otherwise
\* the transform is called once on the complete sample and its result returned.
C2_GetItem ==
    (last.op = "__getitem__" /\ ValidIndex(dataset, last.args.index)) =>
        LET subject == SubjectAt(dataset, last.args.index) IN
        /\ last.status = "ok"
        /\ IF dataset.transform = None
           THEN /\ "items" \in DOMAIN last.value
                /\ IsSampleOf(last.value.items, subject)
                /\ TransformEvents(last.trace) = {}
           ELSE /\ "transformed_by" \in DOMAIN last.value
                /\ last.value.transformed_by = dataset.transform.id
                /\ IsSampleOf(last.value.input.items, subject)
                /\ Cardinality(TransformEvents(last.trace)) = 1
                /\ \A i \in TransformEvents(last.trace) :
                       /\ last.trace[i].by = dataset.transform.id
                       /\ last.trace[i].arg = last.value.input

\* a sample of two images went through the transform
C2_Witness ==
    /\ last.op = "__getitem__"
    /\ last.status = "ok"
    /\ dataset.transform # None
    /\ Len(SubjectAt(dataset, last.args.index)) = 2
    /\ last.args.index < 0

\* C3: constructing an Image, a Subject or an ImagesDataset calls no load;
\* __getitem__(i) calls load once on every image of subjects[i] and on no
\* other, before the transform is applied, and does so again on every call.
C3_LazyUncached ==
    [][/\ last'.op \in {"Image", "Subject", "ImagesDataset"}
            => nloads' = nloads /\ last'.trace = <<>>
       /\ (last'.op = "__getitem__" /\ ValidIndex(dataset, last'.args.index))
            => LET subject == SubjectAt(dataset, last'.args.index)
                   tr == last'.trace
               IN /\ Cardinality(LoadEvents(tr)) = Len(subject)
                  /\ \A k \in 1..Len(subject) :
                         tr[k] = [ev |-> "load", path |-> subject[k].path,
                                  check_nans |-> dataset.check_nans]
                  /\ \A i \in TransformEvents(tr) : \A k \in LoadEvents(tr) : k < i
                  /\ nloads' = nloads + Len(subject)
       /\ (last'.op = "__getitem__" /\ ~ValidIndex(dataset, last'.args.index))
            => nloads' = nloads /\ last'.trace = <<>>
      ]_vars

\* the only subject of a dataset was loaded for the second time
C3_Witness ==
    /\ last.op = "__getitem__"
    /\ last.status = "ok"
    /\ len(dataset) = 1
    /\ Len(SubjectAt(dataset, 0)) = 2
    /\ nloads = 4

\* C7: set_transform(t) replaces the transform and changes nothing else; a
\* later __getitem__ applies the transform the dataset holds, which only
\* set_transform changes, and returns the built sample when it is None.
C7_SetTransform ==
    [][/\ last'.op = "set_transform"
            => /\ dataset'.transform = last'.args.transform
               /\ dataset'.subjects = dataset.subjects
               /\ dataset'.check_nans = dataset.check_nans
               /\ len(dataset') = len(dataset)
               /\ nloads' = nloads
       /\ (last'.op \notin {"set_transform", "ImagesDataset"}) => dataset' = dataset
       /\ (last'.op = "__getitem__" /\ last'.status = "ok")
            => IF dataset.transform = None
               THEN "items" \in DOMAIN last'.value
               ELSE /\ "transformed_by" \in DOMAIN last'.value
                    /\ last'.value.transformed_by = dataset.transform.id
      ]_vars

\* T2 is never given to the constructor: it was set, then applied
C7_Witness ==
    /\ last.op = "__getitem__"
    /\ last.status = "ok"
    /\ "transformed_by" \in DOMAIN last.value
    /\ last.value.transformed_by = "T2"

----------------------------------------------------------------------------
(* Properties of RandomAffine, checked under SpecAffine.                   *)

Resamples(key) == {i \in 1..Len(log) : log[i].ev = "resample" /\ log[i].key = key}

\* C6: an image entry of type LABEL is resampled with nearest-neighbour
\* interpolation whatever the transform is configured with, and every other
\* image entry with the configured image_interpolation.
C6_InterpolationByType ==
    /\ \A i \in ImageEntries(sample) :
           LET image == sample[i].value
               used == IF image.type = LABEL THEN NEAREST ELSE transform.interpolation
           IN /\ \A e \in Resamples(sample[i].key) : log[e].interpolation = used
              /\ \A r \in 1..Len(image.data.resampled) :
                     image.data.resampled[r].interpolator = used.value
              /\ pc = "done" => Len(image.data.resampled) = 1
    /\ \A e \in 1..Len(log) :
           log[e].ev = "resample" => \E i \in ImageEntries(sample) : sample[i].key = log[e].key

\* a label and an intensity image were resampled by a B-spline transform
C6_Witness ==
    /\ pc = "done"
    /\ transform.interpolation = BSPLINE
    /\ \E i, j \in ImageEntries(sample) :
           /\ sample[i].value.type = LABEL
           /\ sample[j].value.type = INTENSITY
           /\ Len(sample[i].value.data.resampled) = 1
           /\ Len(sample[j].value.data.resampled) = 1

\* C8: the parameters are sampled once per call, after the shape check and
\* before any resampling; every image entry is resampled with them, and the
\* sample returned stores them under random_scaling and random_rotation.
C8_ParamsSampledOnce ==
    /\ Len(log) >= 1 => log[1].ev = "check_consistent_shape"
    /\ Len(log) >= 2 => log[2].ev = "get_params"
    /\ \A e \in 1..Len(log) :
           /\ e > 2 => log[e].ev = "resample"
           /\ log[e].ev = "resample" =>
                  /\ log[e].scaling = log[2].scaling
                  /\ log[e].rotation = log[2].rotation
    /\ pc = "done" =>
           /\ Len(log) >= 2
           /\ \A i \in ImageEntries(sample) :
                  /\ Cardinality(Resamples(sample[i].key)) = 1
                  /\ sample[i].value.data.resampled =
                         <<[transforms |->
                                <<[cls |-> "ScaleTransform", inverse_of |-> log[2].scaling.items],
                                  [cls |-> "Euler3DTransform", radians_of |-> log[2].rotation.items]>>,
                            interpolator |-> sample[i].value.data.resampled[1].interpolator]>>
           /\ \E i, j \in 1..Len(sample) :
                  /\ sample[i].key = "random_scaling"
                  /\ sample[i].value = log[2].scaling
                  /\ sample[j].key = "random_rotation"
                  /\ sample[j].value = log[2].rotation
           /\ last.value.items = sample

\* two images were resampled and the sample returned
C8_Witness ==
    /\ pc = "done"
    /\ Cardinality(ImageEntries(sample)) = 2
    /\ Len(log) = 4

InRange(v, range) == range.items[1] <= v /\ v <= range.items[2]

\* C9: get_params returns three scaling values from the range scales and
\* three rotation values from the range degrees; with isotropic the scaling
\* values all equal the first one drawn, otherwise they are the three drawn.
C9_GetParams ==
    params # None =>
        /\ Len(params.scaling.items) = 3
        /\ Len(params.rotation.items) = 3
        /\ \A k \in 1..3 :
               /\ InRange(params.scaling.items[k], transform.scales)
               /\ InRange(params.rotation.items[k], transform.degrees)
               /\ InRange(params.drawn[k], transform.scales)
               /\ transform.isotropic => params.scaling.items[k] = params.drawn[1]
               /\ ~transform.isotropic => params.scaling.items[k] = params.drawn[k]

\* isotropic scaling from unequal draws, with three different rotations
C9_Witness ==
    /\ params # None
    /\ transform.isotropic
    /\ params.drawn[1] # params.drawn[2]
    /\ Cardinality({params.rotation.items[k] : k \in 1..3}) = 3

====
